---- MODULE Spec2Model ----
(***************************************************************************)
(* Model of idmp_extraction.py: one run of the script, from getopt to     *)
(* sys.exit, and the pure validation function check_values on its own.    *)
(***************************************************************************)
EXTENDS Integers, Sequences, FiniteSets, TLC

VARIABLES
    pc,             \* position of the run: start, opts, open, opendst, header, scan, done, cv
    argvFlags,      \* the informational flags (-u, -l) present on the command line
    nargs,          \* len(args): number of positional arguments
    nopts,          \* number of entries of opts the loop of parse_options has visited
    lastOpt,        \* the option the loop visited last ("" before the first)
    sRequested,     \* whether a -s option was visited
    month, day, hour, params, output,   \* locals of parse_options / arguments of extract_data
    PRINT_HEADER,   \* the module global
    src, dst,       \* file handles: "unopened", "open", "closed"
    i,              \* the line counter of extract_data
    nread,          \* number of lines the for loop has fetched (1-based index of cur)
    cur,            \* the line fetched last
    lines,          \* the data lines (index >= 33) fetched so far, in order
    stdout, dstfile, stderr,            \* what was written where
    exitCode,       \* -1 while running, then the process exit status
    exc,            \* the uncaught exception that ended the run, or "none"
    cause,          \* why the run ended: none, info, config, getopt, crash, io, data, eof
    cvIn, cvOut     \* check_values on its own: its input and its outcome

vars == <<pc, argvFlags, nargs, nopts, lastOpt, sRequested, month, day, hour,
          params, output, PRINT_HEADER, src, dst, i, nread, cur, lines,
          stdout, dstfile, stderr, exitCode, exc, cause, cvIn, cvOut>>

----------------------------------------------------------------------------
\* Bounds of the model.

MaxOpts == 4
MaxLines == 34
MaxVals == 3

----------------------------------------------------------------------------
\* Program constants.

EXIT_SUCCESS == 0
EXIT_FAILURE == 1
HEADER_LENGTH == 33
MONTH == 0
DAY == 1
HOUR == 2

ALLOWED_VALUES ==
    [s \in {MONTH, DAY, HOUR} |->
        IF s = MONTH THEN <<1, 12>> ELSE IF s = DAY THEN <<1, 31>> ELSE <<0, 23>>]

\* Code -> column index of the catalog.
PARAMS ==
    [alts |-> 2, azis |-> 3, evg |-> 4, evd |-> 5, evgn |-> 6, evge |-> 7,
     evgs |-> 8, evgw |-> 9, eeg |-> 10, eed |-> 11, lvz |-> 12, rh |-> 13,
     wd |-> 14, ws |-> 15, dbt |-> 16, cvf |-> 17, cef |-> 18, ees |-> 19,
     uva |-> 20, uvb |-> 21]

\* The catalog's codes in the order sorted(PARAMS.items()) lists them.
SortedCodes ==
    <<"alts", "azis", "cef", "cvf", "dbt", "eed", "eeg", "ees", "evd", "evg",
      "evge", "evgn", "evgs", "evgw", "lvz", "rh", "uva", "uvb", "wd", "ws">>

\* The catalog's codes by column index, 2 to 21.
CatalogCodes ==
    <<"alts", "azis", "evg", "evd", "evgn", "evge", "evgs", "evgw", "eeg", "eed",
      "lvz", "rh", "wd", "ws", "dbt", "cvf", "cef", "ees", "uva", "uvb">>

----------------------------------------------------------------------------
\* Strings that are meant to be numbers.  A token is the text of a number:
\*   int  : a plain integer, "3"          dec0 : a decimal with zero fraction, "3.0"
\*   frac : a decimal with a fraction, n + 0.7 for n >= 0, "3.7"
\*   str  : text that is no number, "abc" or ""

IntTok(n) == [k |-> "int", n |-> n]
Dec0Tok(n) == [k |-> "dec0", n |-> n]
FracTok(n) == [k |-> "frac", n |-> n]
StrTok == [k |-> "str", n |-> 0]

\* float(v) succeeds on every token but text.
FloatOk(t) == t.k # "str"
\* float(v).is_integer()
IsInteger(t) == t.k \in {"int", "dec0"}
\* int(float(v)): truncation towards zero.
IntOfFloat(t) == t.n
\* int(v) on the string itself: only a plain integer parses, "3.0" raises ValueError.
IntStrOk(t) == t.k = "int"
IntOfStr(t) == t.n

\* Optional values: None, or a value.
None == [some |-> FALSE, v |-> <<>>]
Some(x) == [some |-> TRUE, v |-> x]
\* Python truth of an optional list: None and [] are false.
Truthy(x) == x.some /\ Len(x.v) > 0
\* Python truth of an optional string: None and "" are false.
TruthyStr(x) == x.some /\ x.v # ""

----------------------------------------------------------------------------
\* check_values and check_params.  An outcome is
\*   st = "ok"    : the function returned val
\*   st = "exit"  : it wrote msg to sys.stderr and called sys.exit(EXIT_FAILURE)
\*   st = "raise" : an exception (msg names it) left it uncaught

Returned(val) == [st |-> "ok", val |-> val, msg |-> ""]
Exits(msg) == [st |-> "exit", val |-> <<>>, msg |-> msg]
Raises(e) == [st |-> "raise", val |-> <<>>, msg |-> e]

\* The body of the for loop of check_values on one value: the message of the
\* first check that fails, or "" when all three pass.
check_one(slot, t) ==
    IF ~FloatOk(t) THEN "must be an number"
    ELSE IF ~IsInteger(t) THEN "value must be an integer, not a float"
    ELSE IF IntOfFloat(t) < ALLOWED_VALUES[slot][1]
            \/ ALLOWED_VALUES[slot][2] < IntOfFloat(t)
         THEN "value must be between min and max"
    ELSE ""

check_values(slot, v_range) ==
    IF Len(v_range) > 2 THEN Exits("can have only 1 or 2 values")
    ELSE
        LET bad == {j \in 1..Len(v_range) : check_one(slot, v_range[j]) # ""}
            first == CHOOSE j \in bad : \A j2 \in bad : j <= j2
        IN  IF bad # {} THEN Exits(check_one(slot, v_range[first]))
            \* len(v_range) == 2: int(v_range[0]) >= int(v_range[1]) on the strings
            ELSE IF Len(v_range) = 2 /\ ~(IntStrOk(v_range[1]) /\ IntStrOk(v_range[2]))
                 THEN Raises("ValueError")
            ELSE IF Len(v_range) = 2 /\ IntOfStr(v_range[1]) >= IntOfStr(v_range[2])
                 THEN Exits("when using ranges, first value must be lower")
            \* map(int, v_range) on the strings
            ELSE IF \E j \in 1..Len(v_range) : ~IntStrOk(v_range[j])
                 THEN Raises("ValueError")
            ELSE Returned([j \in 1..Len(v_range) |-> IntOfStr(v_range[j])])

\* A parameter code as typed: its lower-case spelling and whether it was typed
\* in upper case.  str.lower yields the lower-case spelling.
Typed(name, upper) == [name |-> name, upper |-> upper]
lower(p) == p.name
\* PARAMS[p] raises KeyError unless p is spelled as a key of the catalog.
IsKey(p) == p \in DOMAIN PARAMS

check_params(raw_params) ==
    LET ps == [j \in 1..Len(raw_params) |-> lower(raw_params[j])]
    IN  IF \E j \in 1..Len(ps) : ~IsKey(ps[j])
        THEN Exits("Wrong parameter name")
        ELSE Returned(ps)

----------------------------------------------------------------------------
\* Lines of the input file.  A line is
\*   dt  : fields[0].split(" "), each part the sequence of its components
\*         (the date split on "/", the time on ":"), each component a token
\*   n   : the number of tab-separated fields, len(line.split("\t"))
\*   eol : whether the line ends with a line break (only the last line of a
\*         file may lack it)
\* The line break is not stripped: it stays at the end of the last field.

Line(dt, n, eol) == [dt |-> dt, n |-> n, eol |-> eol]
Stamp(m, d, h) == << <<IntTok(m), IntTok(d), IntTok(2003)>>, <<IntTok(h), IntTok(0)>> >>
NoLine == Line(<<>>, 0, TRUE)

\* fields[k] for k >= 1: the column it holds and whether the line break hangs on it.
Field(line, k) == [col |-> k, nl |-> (line.eol /\ k = line.n - 1)]

\* Rows of output.  names holds the cells of a header row (or of the usage text
\* and parameter list), dt and vals the cells of a data row; line is the index
\* of the input line a data row was made from.
TextRow(kind, names) == [kind |-> kind, line |-> 0, names |-> names, dt |-> <<>>, vals |-> <<>>]
DataRow(n, datetime, fs) == [kind |-> "data", line |-> n, names |-> <<>>, dt |-> datetime, vals |-> fs]

\* inside(date_or_time, m_d_h): len(None) raises and the except returns False.
inside(date_or_time, m_d_h) ==
    IF ~m_d_h.some THEN FALSE
    ELSE IF Len(m_d_h.v) = 1 THEN date_or_time = m_d_h.v[1]
    ELSE IF Len(m_d_h.v) = 0 THEN FALSE
    ELSE m_d_h.v[1] <= date_or_time /\ date_or_time <= m_d_h.v[2]

\* True counts 1 and False 0 when added to score.
AsInt(b) == IF b THEN 1 ELSE 0

\* len(filter(None, [month, day, hour]))
nb_filter_of(m, d, h) == AsInt(Truthy(m)) + AsInt(Truthy(d)) + AsInt(Truthy(h))

\* selected_slot: nothing in it catches what map(int, ...) and the indexing raise.
selected_slot(slot, nb_filter, m, d, h) ==
    IF \E j \in 1..Len(slot[1]) : ~IntStrOk(slot[1][j]) THEN Raises("ValueError")
    ELSE IF Len(slot) < 2 THEN Raises("IndexError")
    ELSE IF \E j \in 1..Len(slot[2]) : ~IntStrOk(slot[2][j]) THEN Raises("ValueError")
    ELSE IF Len(slot[1]) < 2 THEN Raises("IndexError")
    ELSE LET score == AsInt(inside(IntOfStr(slot[1][1]), m))
                      + AsInt(inside(IntOfStr(slot[1][2]), d))
                      + AsInt(inside(IntOfStr(slot[2][1]), h))
         IN  Returned(score = nb_filter)

\* extract_params: the row it hands to out, or the IndexError of fields[i].
extract_params(n, line, ps) ==
    IF \E j \in 1..Len(ps) : PARAMS[ps[j]] >= line.n THEN Raises("IndexError")
    ELSE Returned(DataRow(n, line.dt, [j \in 1..Len(ps) |-> Field(line, PARAMS[ps[j]])]))

\* write_header's argument.
header_row(ps) == TextRow("header", <<"MM/DD/YYYY", "hh:mm">> \o ps)

\* out with the new line put in front of the text instead of after it.
out_Prepend(row, d, file, std) ==
    IF d = "open" THEN [file |-> <<row>> \o file, std |-> std]
    ELSE [file |-> file, std |-> <<row>> \o std]

\* out(data, dst): one line more in the output file when there is one, else on
\* standard output.  The result is the pair of both texts.
out(row, d, file, std) ==
    IF d = "open" THEN [file |-> Append(file, row), std |-> std]
    ELSE [file |-> file, std |-> Append(std, row)]

\* The comparison with <= in place of <: one line more is skipped.
IsPreamble_OffByOne(k) == k <= HEADER_LENGTH

\* i < HEADER_LENGTH: the line is skipped.
IsPreamble(k) == k < HEADER_LENGTH

----------------------------------------------------------------------------
\* The inputs the model draws from.

\* Arguments of -m, -d, -h as a.split(',') yields them.
MonthArgs == {<<IntTok(3)>>, <<IntTok(13)>>}
DayArgs == {<<IntTok(10)>>, <<Dec0Tok(10)>>}
HourArgs == {<<IntTok(0)>>, <<IntTok(8), IntTok(17)>>, <<IntTok(17), IntTok(8)>>}

\* Arguments of -p: two codes out of column order, one code typed in upper
\* case, the whole catalog, an unknown code.
ParamArgs ==
    { <<Typed("dbt", FALSE), Typed("ws", FALSE)>>,
      <<Typed("uvb", TRUE)>>,
      [j \in 1..Len(CatalogCodes) |-> Typed(CatalogCodes[j], FALSE)],
      <<Typed("zz", FALSE)>> }

\* Arguments of -o: a path, and the empty string.
OutputArgs == {"out.tsv", ""}

\* Lines of the file: records of March/April, day 10/11, hours 0, 8, 17, 18
\* with 23 fields; a record whose 22nd field is the last of the line; a
\* record with 3 fields only; a month that is no integer; a date with no
\* time; an empty line.
LineShapes ==
    { Line(Stamp(3, 10, 8), 23, TRUE),  Line(Stamp(4, 10, 8), 23, TRUE),
      Line(Stamp(3, 11, 8), 23, TRUE),  Line(Stamp(3, 10, 0), 23, TRUE),
      Line(Stamp(3, 10, 17), 23, TRUE), Line(Stamp(3, 10, 18), 23, TRUE),
      Line(Stamp(3, 10, 8), 22, TRUE),  Line(Stamp(3, 10, 8), 22, FALSE),
      Line(Stamp(3, 10, 8), 3, TRUE),
      Line(<< <<StrTok, IntTok(10), IntTok(2003)>>, <<IntTok(8), IntTok(0)>> >>, 23, TRUE),
      Line(<< <<IntTok(3), IntTok(10), IntTok(2003)>> >>, 23, TRUE),
      Line(<< <<StrTok>> >>, 1, TRUE) }

\* Values handed to check_values when it is checked on its own.
CVTokens ==
    {IntTok(n) : n \in {-1, 0, 1, 5, 12, 13, 23, 24, 31, 32}}
        \cup {Dec0Tok(3), Dec0Tok(40), FracTok(3), StrTok}

RECURSIVE SeqsUpTo(_, _)
SeqsUpTo(S, n) ==
    IF n = 0 THEN {<<>>}
    ELSE LET shorter == SeqsUpTo(S, n - 1)
         IN  shorter \cup {Append(q, x) : q \in {r \in shorter : Len(r) = n - 1}, x \in S}

Idle == [st |-> "idle", val |-> <<>>, msg |-> ""]

----------------------------------------------------------------------------
\* The run.

Init ==
    /\ pc = "start"
    /\ argvFlags \in SUBSET {"-u", "-l"}
    /\ nargs \in 0..2
    /\ nopts = 0
    /\ lastOpt = ""
    /\ sRequested = FALSE
    /\ month = None /\ day = None /\ hour = None /\ params = None /\ output = None
    /\ PRINT_HEADER = TRUE
    /\ src = "unopened" /\ dst = "unopened"
    /\ i = 1
    /\ nread = 0
    /\ cur = NoLine
    /\ lines = <<>>
    /\ stdout = <<>> /\ dstfile = <<>> /\ stderr = <<>>
    /\ exitCode = -1
    /\ exc = "none"
    /\ cause = "none"
    /\ cvIn = [slot |-> MONTH, v |-> <<>>]
    /\ cvOut = Idle

\* The run ends: sys.exit(code), or an uncaught exception e, whose traceback
\* the interpreter writes to sys.stderr before it exits with status 1.
Terminate(code, why, e, msgs) ==
    /\ pc' = "done"
    /\ exitCode' = code
    /\ cause' = why
    /\ exc' = e
    /\ stderr' = stderr \o msgs

Continue == UNCHANGED <<exitCode, cause, exc, stderr>>

\* How a failed check_values or check_params ends the run.
Fail(r) ==
    IF r.st = "exit" THEN Terminate(EXIT_FAILURE, "config", "none", <<r.msg>>)
    ELSE Terminate(1, "crash", r.msg, <<"Traceback">>)

scanVars == <<src, dst, i, nread, cur, lines, dstfile>>
cvVars == <<cvIn, cvOut>>

\* getopt.getopt accepts the command line.
GetoptOk ==
    /\ pc = "start"
    /\ pc' = "opts"
    /\ Continue
    /\ UNCHANGED <<argvFlags, nargs, nopts, lastOpt, sRequested, month, day, hour,
                   params, output, PRINT_HEADER, stdout>>
    /\ UNCHANGED scanVars /\ UNCHANGED cvVars

\* getopt.getopt raises GetoptError (an unknown option, a missing argument):
\* sys.stderr.write(err) is handed the exception, not a string, and raises
\* TypeError inside the handler.
GetoptError ==
    /\ pc = "start"
    /\ Terminate(1, "getopt", "TypeError", <<"Traceback">>)
    /\ UNCHANGED <<argvFlags, nargs, nopts, lastOpt, sRequested, month, day, hour,
                   params, output, PRINT_HEADER, stdout>>
    /\ UNCHANGED scanVars /\ UNCHANGED cvVars

\* The for loop of parse_options visits one more option.
Visit(o) ==
    /\ pc = "opts"
    /\ nopts < MaxOpts
    /\ nopts' = nopts + 1
    /\ lastOpt' = o
    /\ UNCHANGED <<argvFlags, nargs>>
    /\ UNCHANGED scanVars /\ UNCHANGED cvVars

\* -u and -l leaving with EXIT_FAILURE.
InfoExit_Failure(o) ==
    [code |-> EXIT_FAILURE,
     text |-> IF o = "-u" THEN TextRow("usage", <<>>) ELSE TextRow("params", SortedCodes)]

\* What -u and -l print, and the status they exit with.
InfoExit(o) ==
    [code |-> EXIT_SUCCESS,
     text |-> IF o = "-u" THEN TextRow("usage", <<>>) ELSE TextRow("params", SortedCodes)]

OptU ==
    /\ "-u" \in argvFlags
    /\ Visit("-u")
    /\ stdout' = Append(stdout, InfoExit("-u").text)
    /\ Terminate(InfoExit("-u").code, "info", "none", <<>>)
    /\ UNCHANGED <<sRequested, month, day, hour, params, output, PRINT_HEADER>>

OptL ==
    /\ "-l" \in argvFlags
    /\ Visit("-l")
    /\ stdout' = Append(stdout, InfoExit("-l").text)
    /\ Terminate(InfoExit("-l").code, "info", "none", <<>>)
    /\ UNCHANGED <<sRequested, month, day, hour, params, output, PRINT_HEADER>>

OptS ==
    /\ Visit("-s")
    /\ PRINT_HEADER' = FALSE
    /\ sRequested' = TRUE
    /\ Continue
    /\ UNCHANGED <<pc, month, day, hour, params, output, stdout>>

OptM ==
    /\ Visit("-m")
    /\ \E a \in MonthArgs :
        LET r == check_values(MONTH, a)
        IN  IF r.st = "ok" THEN month' = Some(r.val) /\ Continue /\ UNCHANGED pc
            ELSE Fail(r) /\ UNCHANGED month
    /\ UNCHANGED <<sRequested, day, hour, params, output, PRINT_HEADER, stdout>>

OptD ==
    /\ Visit("-d")
    /\ \E a \in DayArgs :
        LET r == check_values(DAY, a)
        IN  IF r.st = "ok" THEN day' = Some(r.val) /\ Continue /\ UNCHANGED pc
            ELSE Fail(r) /\ UNCHANGED day
    /\ UNCHANGED <<sRequested, month, hour, params, output, PRINT_HEADER, stdout>>

OptH ==
    /\ Visit("-h")
    /\ \E a \in HourArgs :
        LET r == check_values(HOUR, a)
        IN  IF r.st = "ok" THEN hour' = Some(r.val) /\ Continue /\ UNCHANGED pc
            ELSE Fail(r) /\ UNCHANGED hour
    /\ UNCHANGED <<sRequested, month, day, params, output, PRINT_HEADER, stdout>>

OptP ==
    /\ Visit("-p")
    /\ \E a \in ParamArgs :
        LET r == check_params(a)
        IN  IF r.st = "ok" THEN params' = Some(r.val) /\ Continue /\ UNCHANGED pc
            ELSE Fail(r) /\ UNCHANGED params
    /\ UNCHANGED <<sRequested, month, day, hour, output, PRINT_HEADER, stdout>>

OptO ==
    /\ Visit("-o")
    /\ \E a \in OutputArgs : output' = Some(a)
    /\ Continue
    /\ UNCHANGED <<pc, sRequested, month, day, hour, params, PRINT_HEADER, stdout>>

\* parse_options opening the input file before it looks for the parameters.
EndOfOpts_OpensFirst ==
    /\ pc = "opts"
    /\ argvFlags = {}
    /\ IF nargs # 1
       THEN Terminate(EXIT_FAILURE, "config", "none", <<"Missing file name">>)
            /\ UNCHANGED <<nopts, lastOpt, src>>
       ELSE IF ~Truthy(params)
       THEN Terminate(EXIT_FAILURE, "config", "none", <<"No parameter selected">>)
            /\ src' = "open"
            /\ UNCHANGED <<nopts, lastOpt>>
       ELSE pc' = "open" /\ nopts' = 0 /\ lastOpt' = "" /\ Continue /\ UNCHANGED src
    /\ UNCHANGED <<argvFlags, nargs, sRequested, month, day, hour, params, output,
                   PRINT_HEADER, stdout>>
    /\ UNCHANGED <<dst, i, nread, cur, lines, dstfile>> /\ UNCHANGED cvVars

\* The checks of parse_options after its loop, and its return: its locals
\* opts and o are gone then.
EndOfOpts ==
    /\ pc = "opts"
    /\ argvFlags = {}
    /\ IF nargs # 1
       THEN Terminate(EXIT_FAILURE, "config", "none", <<"Missing file name">>)
            /\ UNCHANGED <<nopts, lastOpt>>
       ELSE IF ~Truthy(params)
       THEN Terminate(EXIT_FAILURE, "config", "none", <<"No parameter selected">>)
            /\ UNCHANGED <<nopts, lastOpt>>
       ELSE IF nopts < 1
       THEN Terminate(EXIT_FAILURE, "config", "none", <<"You must apply a filter">>)
            /\ UNCHANGED <<nopts, lastOpt>>
       ELSE pc' = "open" /\ nopts' = 0 /\ lastOpt' = "" /\ Continue
    /\ UNCHANGED <<argvFlags, nargs, sRequested, month, day, hour, params, output,
                   PRINT_HEADER, stdout>>
    /\ UNCHANGED scanVars /\ UNCHANGED cvVars


optVars == <<argvFlags, nargs, nopts, lastOpt, sRequested, month, day, hour,
             params, output, PRINT_HEADER>>

\* src = open(input, "r"): the file opens, or IOError ends the run.
OpenInput ==
    /\ pc = "open"
    /\ \E ok \in BOOLEAN :
        IF ok THEN src' = "open" /\ pc' = "opendst" /\ Continue
        ELSE Terminate(1, "io", "IOError", <<"Traceback">>) /\ UNCHANGED src
    /\ UNCHANGED optVars /\ UNCHANGED cvVars
    /\ UNCHANGED <<dst, i, nread, cur, lines, dstfile, stdout>>

\* if output: dst = open(output, "w") creates or truncates the file, or
\* IOError ends the run with src still open; else dst = None.
OpenOutput ==
    /\ pc = "opendst"
    /\ IF TruthyStr(output)
       THEN \E ok \in BOOLEAN :
                IF ok THEN dst' = "open" /\ pc' = "header" /\ Continue
                ELSE Terminate(1, "io", "IOError", <<"Traceback">>) /\ UNCHANGED dst
       ELSE pc' = "header" /\ Continue /\ UNCHANGED dst
    /\ UNCHANGED optVars /\ UNCHANGED cvVars
    /\ UNCHANGED <<src, i, nread, cur, lines, dstfile, stdout>>

\* The header written whatever PRINT_HEADER says.
WriteHeader_Always ==
    /\ pc = "header"
    /\ LET o == out(header_row(params.v), dst, dstfile, stdout)
       IN  dstfile' = o.file /\ stdout' = o.std
    /\ i' = 1
    /\ pc' = "scan"
    /\ Continue
    /\ UNCHANGED optVars /\ UNCHANGED cvVars
    /\ UNCHANGED <<src, dst, nread, cur, lines>>

\* if PRINT_HEADER: write_header(...); then nb_filter and i = 1.
WriteHeader ==
    /\ pc = "header"
    /\ LET o == out(header_row(params.v), dst, dstfile, stdout)
       IN  IF PRINT_HEADER THEN dstfile' = o.file /\ stdout' = o.std
           ELSE UNCHANGED <<dstfile, stdout>>
    /\ i' = 1
    /\ pc' = "scan"
    /\ Continue
    /\ UNCHANGED optVars /\ UNCHANGED cvVars
    /\ UNCHANGED <<src, dst, nread, cur, lines>>

\* One turn of "for line in src": the line is skipped as preamble, or split,
\* tested by selected_slot and, when selected, written by extract_params.  An
\* exception of either leaves extract_data at once.
ReadLine ==
    /\ pc = "scan"
    /\ nread < MaxLines
    /\ cur.eol
    /\ \E line \in LineShapes :
        /\ cur' = line
        /\ nread' = nread + 1
        /\ IF IsPreamble(i)
           THEN /\ i' = i + 1
                /\ Continue
                /\ UNCHANGED <<pc, lines, dstfile, stdout>>
           ELSE LET sel == selected_slot(line.dt, nb_filter_of(month, day, hour),
                                         month, day, hour)
                    row == extract_params(nread + 1, line, params.v)
                    o == out(row.val, dst, dstfile, stdout)
                IN  /\ i' = i
                    /\ lines' = Append(lines, line)
                    /\ IF sel.st = "raise"
                       THEN Terminate(1, "data", sel.msg, <<"Traceback">>)
                            /\ UNCHANGED <<dstfile, stdout>>
                       ELSE IF ~sel.val
                       THEN Continue /\ UNCHANGED <<pc, dstfile, stdout>>
                       ELSE IF row.st = "raise"
                       THEN Terminate(1, "data", row.msg, <<"Traceback">>)
                            /\ UNCHANGED <<dstfile, stdout>>
                       ELSE dstfile' = o.file /\ stdout' = o.std
                            /\ Continue /\ UNCHANGED pc
    /\ UNCHANGED optVars /\ UNCHANGED cvVars
    /\ UNCHANGED <<src, dst>>

\* The file is exhausted: src.close(), dst.close() when there is one, and
\* main's sys.exit(EXIT_SUCCESS).
EndOfFile ==
    /\ pc = "scan"
    /\ src' = "closed"
    /\ dst' = IF dst = "open" THEN "closed" ELSE dst
    /\ Terminate(EXIT_SUCCESS, "eof", "none", <<>>)
    /\ UNCHANGED optVars /\ UNCHANGED cvVars
    /\ UNCHANGED <<i, nread, cur, lines, dstfile, stdout>>

Next ==
    \/ GetoptOk \/ GetoptError
    \/ OptU \/ OptL \/ OptS \/ OptM \/ OptD \/ OptH \/ OptP \/ OptO
    \/ EndOfOpts
    \/ OpenInput \/ OpenOutput \/ WriteHeader \/ ReadLine \/ EndOfFile

Spec == Init /\ [][Next]_vars

----------------------------------------------------------------------------
\* check_values on its own: one call on a slot and a comma-split value list,
\* made as parse_options makes it.

InitCV ==
    /\ pc = "cv"
    /\ cvIn \in [slot : {MONTH, DAY, HOUR}, v : SeqsUpTo(CVTokens, MaxVals) \ {<<>>}]
    /\ cvOut = Idle
    /\ argvFlags = {} /\ nargs = 1 /\ nopts = 0 /\ lastOpt = "" /\ sRequested = FALSE
    /\ month = None /\ day = None /\ hour = None /\ params = None /\ output = None
    /\ PRINT_HEADER = TRUE
    /\ src = "unopened" /\ dst = "unopened"
    /\ i = 1 /\ nread = 0 /\ cur = NoLine /\ lines = <<>>
    /\ stdout = <<>> /\ dstfile = <<>> /\ stderr = <<>>
    /\ exitCode = -1 /\ exc = "none" /\ cause = "none"

CallCheckValues ==
    /\ pc = "cv"
    /\ cvOut = Idle
    /\ LET r == check_values(cvIn.slot, cvIn.v)
       IN  /\ cvOut' = r
           /\ IF r.st = "ok" THEN pc' = "returned" /\ Continue ELSE Fail(r)
    /\ UNCHANGED optVars /\ UNCHANGED scanVars
    /\ UNCHANGED <<cvIn, stdout>>

NextCV == CallCheckValues

SpecCV == InitCV /\ [][NextCV]_vars

----------------------------------------------------------------------------
\* What the claims speak of, stated without the code's own operators.

\* The text the run produced where it was told to: the output file when -o
\* named one, standard output otherwise (also for -o with an empty name).
Emitted == IF output.some /\ output.v # "" THEN dstfile ELSE stdout

IsData(r) == r.kind = "data"
DataRows == SelectSeq(Emitted, IsData)

\* The index in the file of the k-th data line.
FileIndex(k) == 32 + k

HasRow(k) == \E j \in 1..Len(Emitted) : IsData(Emitted[j]) /\ Emitted[j].line = FileIndex(k)

\* The date/time field has a date and a time whose components are integers,
\* a month, a day and an hour among them.
DateParses(line) ==
    /\ Len(line.dt) >= 2
    /\ Len(line.dt[1]) >= 2
    /\ Len(line.dt[2]) >= 1
    /\ \A p \in 1..2 : \A j \in 1..Len(line.dt[p]) : line.dt[p][j].k = "int"

\* A filter passes: absent, a single value equal to the component, or a
\* range that holds it, both ends included.
Passes(f, c) ==
    \/ ~f.some
    \/ Len(f.v) = 1 /\ c = f.v[1]
    \/ Len(f.v) = 2 /\ f.v[1] <= c /\ c <= f.v[2]

AllPass(line) ==
    /\ Passes(month, line.dt[1][1].n)
    /\ Passes(day, line.dt[1][2].n)
    /\ Passes(hour, line.dt[2][1].n)

\* The line has a field at the column of every requested code.
HasColumns(line) == \A j \in 1..Len(params.v) : PARAMS[params.v[j]] < line.n

Malformed(line) == ~DateParses(line) \/ ~HasColumns(line)

\* The data lines whose turn of the loop ran to its end.
Processed == IF cause = "data" THEN SubSeq(lines, 1, Len(lines) - 1) ELSE lines

IsSelected(k) == DateParses(lines[k]) /\ AllPass(lines[k])
SelectedIndexes == SelectSeq([k \in 1..Len(Processed) |-> k], IsSelected)

\* extract_data has gone past its header statement.
Scanning == pc = "scan" \/ (pc = "done" /\ cause \in {"eof", "data"})

----------------------------------------------------------------------------
\* C1: for every data line whose date/time field parses to integers and every
\* combination of month/day/hour filters, the line is selected and its record
\* written if and only if every supplied filter passes.
C1_WrittenIffAllFiltersPass ==
    \A k \in 1..Len(lines) :
        DateParses(lines[k]) => (HasRow(k) <=> AllPass(lines[k]))

\* The decision of selected_slot alone, on the lines whose date/time field
\* parses: true exactly when every supplied filter passes.
SelectedSlotDecision ==
    \A k \in 1..Len(lines) :
        DateParses(lines[k]) =>
            LET sel == selected_slot(lines[k].dt, nb_filter_of(month, day, hour),
                                     month, day, hour)
            IN  sel.st = "ok" /\ (sel.val <=> AllPass(lines[k]))

\* The record of a line that has its columns is written exactly when every
\* supplied filter passes.
WrittenIffAllPassWithColumns ==
    \A k \in 1..Len(lines) :
        (DateParses(lines[k]) /\ HasColumns(lines[k])) => (HasRow(k) <=> AllPass(lines[k]))

\* C2: a malformed data line never aborts the run: no row is written for it
\* and the scan goes on.
C2_MalformedLineNeverAborts ==
    \A k \in 1..Len(lines) :
        Malformed(lines[k]) => (~HasRow(k) /\ cause # "data")

\* C5: on every exit path every file handle that was opened has been closed
\* before the run ends.
C5_HandlesClosedAtExit ==
    pc = "done" => (src # "open" /\ dst # "open")

\* C9: every data row is the date, the time and the fields at the requested
\* codes' columns in request order, and no cell holds a line break.
C9_RowIsProjection ==
    \A j \in 1..Len(Emitted) :
        IsData(Emitted[j]) =>
            LET r == Emitted[j]
                line == lines[r.line - 32]
            IN  /\ r.dt = line.dt
                /\ Len(r.dt) = 2
                /\ Len(r.vals) = Len(params.v)
                /\ \A c \in 1..Len(r.vals) :
                    r.vals[c].col = PARAMS[params.v[c]] /\ ~r.vals[c].nl

\* The same without the line break: the cells of a row are the right ones.
RowCellsAreProjection ==
    \A j \in 1..Len(Emitted) :
        IsData(Emitted[j]) =>
            LET r == Emitted[j]
                line == lines[r.line - 32]
            IN  /\ r.dt = line.dt
                /\ Len(r.vals) = Len(params.v)
                /\ \A c \in 1..Len(r.vals) : r.vals[c].col = PARAMS[params.v[c]]

----------------------------------------------------------------------------
\* C3: check_values ends the run with a configuration error if and only if
\* (a) more than two values are given, (b) a value is non-numeric, (c) a value
\* is non-integral, (d) a value is outside the slot's domain, or (e) two
\* values are given and the first is not strictly less than the second; on
\* every other input it returns the same values as integers.

NonNumeric(t) == t.k = "str"
NonIntegral(t) == t.k = "frac"
OutsideDomain(slot, t) ==
    /\ t.k \in {"int", "dec0"}
    /\ (t.n < ALLOWED_VALUES[slot][1] \/ t.n > ALLOWED_VALUES[slot][2])

MustBeRejected(slot, v) ==
    \/ Len(v) > 2
    \/ \E j \in 1..Len(v) : NonNumeric(v[j])
    \/ \E j \in 1..Len(v) : NonIntegral(v[j])
    \/ \E j \in 1..Len(v) : OutsideDomain(slot, v[j])
    \/ Len(v) = 2 /\ ~(v[1].n < v[2].n)

C3_CheckValuesContract ==
    pc # "cv" =>
        IF MustBeRejected(cvIn.slot, cvIn.v)
        THEN cvOut.st = "exit" /\ exitCode = 1 /\ stderr # <<>>
        ELSE /\ cvOut.st = "ok"
             /\ cvOut.val = [j \in 1..Len(cvIn.v) |-> cvIn.v[j].n]
             /\ exitCode = -1

\* The same contract on the value lists that hold no decimal token with a
\* zero fraction.
CheckValuesContractOnPlainTokens ==
    (pc # "cv" /\ \A j \in 1..Len(cvIn.v) : cvIn.v[j].k # "dec0") =>
        IF MustBeRejected(cvIn.slot, cvIn.v)
        THEN cvOut.st = "exit" /\ exitCode = 1 /\ stderr # <<>>
        ELSE /\ cvOut.st = "ok"
             /\ cvOut.val = [j \in 1..Len(cvIn.v) |-> cvIn.v[j].n]

----------------------------------------------------------------------------
C6_HeaderOnceAndFirst ==
    /\ ~Scanning => (dstfile = <<>> /\ \A j \in 1..Len(stdout) : stdout[j].kind \in {"usage", "params"})
    /\ Scanning =>
        /\ (output.some /\ output.v # "") => stdout = <<>>
        /\ IF ~sRequested
           THEN /\ Len(Emitted) >= 1
                /\ Emitted[1].kind = "header"
                /\ Emitted[1].names = <<"MM/DD/YYYY", "hh:mm">> \o params.v
                /\ \A j \in 2..Len(Emitted) : IsData(Emitted[j])
           ELSE /\ \A j \in 1..Len(Emitted) : IsData(Emitted[j])
                /\ \A j \in 1..Len(Emitted) : Emitted[j].line >= Emitted[1].line

C6_Witness ==
    /\ pc = "done" /\ cause = "eof"
    /\ ~sRequested
    /\ Len(Emitted) >= 3
    /\ Len(params.v) = 2

\* C7: at every point of the scan the data rows written so far are the rows
\* of the selected data lines among the lines read so far, each once, in the
\* order of the input.
C7_RowsInInputOrder ==
    LET rows == DataRows
        sel == SelectedIndexes
    IN  /\ Len(rows) = Len(sel)
        /\ \A j \in 1..Len(rows) :
            /\ rows[j].line = FileIndex(sel[j])
            /\ rows[j].dt = lines[sel[j]].dt

C7_Witness ==
    /\ Len(DataRows) = 2
    /\ DataRows[1].line = 33 /\ DataRows[2].line = 34
    /\ DataRows[1].dt # DataRows[2].dt

\* C8: the lines 1 to 32 are never parsed and produce neither a row nor an
\* error, every line from 33 on is a data line, line 33 is the first that
\* can produce a row, and a file of fewer than 33 lines ends the run normally
\* with no data row.
C8_PreambleIs32Lines ==
    /\ \A j \in 1..Len(Emitted) : IsData(Emitted[j]) => Emitted[j].line >= 33
    /\ nread < 33 => (lines = <<>> /\ DataRows = <<>> /\ cause # "data")
    /\ nread >= 33 => Len(lines) = nread - 32
    /\ (Len(lines) >= 1 /\ DateParses(lines[1]) /\ AllPass(lines[1]) /\ HasColumns(lines[1]))
            => HasRow(1)
    /\ (pc = "scan" /\ nread < 33) => ENABLED EndOfFile
    /\ (pc = "done" /\ cause = "eof") => exitCode = 0

C8_Witness ==
    /\ pc = "done" /\ cause = "eof" /\ exitCode = 0
    /\ nread = 32
    /\ ~DateParses(cur)
    /\ DataRows = <<>>

\* Line 33 does produce a row.
Line33Written == Len(DataRows) >= 1 /\ DataRows[1].line = 33

\* C10 as stated: whenever -u or -l is among the options the run prints the
\* usage text or the parameter list and exits with code 0, whatever the other
\* options; exit code 1 comes only from runs with neither flag.  (Stated for
\* the command lines getopt accepts.)
C10_FlagAnywhereExitsZero ==
    (pc = "done" /\ argvFlags # {} /\ cause # "getopt") =>
        /\ exitCode = 0
        /\ Len(stdout) = 1 /\ stdout[1].kind \in {"usage", "params"}

\* C10 as amended: when the loop of parse_options reaches -u or -l the run
\* prints the usage text or the parameter list and exits with code 0 without
\* looking at the options after it; a run with such a flag exits with code 1
\* only when getopt rejected the command line or an option before the flag
\* ended the run, and it never opens a file.
C10_FlagReachedExitsZero ==
    /\ (pc = "done" /\ lastOpt \in {"-u", "-l"}) =>
        /\ exitCode = 0
        /\ stderr = <<>>
        /\ Len(stdout) = 1
        /\ stdout[1].kind = (IF lastOpt = "-u" THEN "usage" ELSE "params")
        /\ lastOpt = "-l" => stdout[1].names = SortedCodes
    /\ (pc = "done" /\ argvFlags # {} /\ exitCode # 0) =>
        /\ exitCode = 1
        /\ cause \in {"getopt", "config", "crash"}
        /\ lastOpt \notin {"-u", "-l"}
    /\ argvFlags # {} => (pc \in {"start", "opts", "done"} /\ src = "unopened" /\ dst = "unopened")

C10_Witness ==
    /\ pc = "done" /\ lastOpt = "-u" /\ exitCode = 0
    /\ nopts >= 3 /\ month.some /\ params.some

====
